---- MODULE Spec2Model ----
(***************************************************************************)
(* Model of mechalink-socket-server (src/socketServer.js).                 *)
(*                                                                         *)
(* The source file holds two revisions of start(): the first (lines 19-238)*)
(* records notifications with $push under a fresh ObjectId, the second     *)
(* (lines 258-461) goes through sendNotification with $addToSet under a    *)
(* composite id.  `rev` says which revision is running.                    *)
(*                                                                         *)
(* A change-stream handler is an async function: it runs from the delivery *)
(* of the event to its first await, and from each await to the next, as    *)
(* one step each.  Handlers of different events interleave at the awaits.  *)
(***************************************************************************)
EXTENDS Integers, Sequences, FiniteSets, TLC

VARIABLES
    rev,            \* 1 | 2: the revision of start() that is running
    running,        \* the node process is alive
    subscribed,     \* collection -> its change stream is open
    clock,          \* the wall clock read by new Date()
    nextOid,        \* the next value new ObjectId() generates
    notifications,  \* users collection: email -> the user's notifications array
    tasks,          \* the handler invocations, in the order the feed delivered them
    effects,        \* the store writes and realtime pushes done so far, in order
    caught,         \* errors logged by a catch block
    unhandled,      \* promise rejections / exceptions nobody caught
    failures,       \* store operations and feeds that failed so far
    status,         \* socket -> "idle" | "connected" | "disconnected"
    rooms,          \* socket -> the rooms it is in (socket.rooms)
    joined,         \* socket -> the rooms its joinChat events named, while it lives
    lastRelay       \* the last chat relay and the sockets it reached

vars == <<rev, running, subscribed, clock, nextOid, notifications, tasks,
          effects, caught, unhandled, failures, status, rooms, joined,
          lastRelay>>

pipelineVars == <<rev, running, subscribed, clock, nextOid, notifications,
                  tasks, effects, caught, unhandled, failures>>

chatVars == <<status, rooms, joined, lastRelay>>

----------------------------------------------------------------------------
(* Bounds *)

MaxEvents == 2
MaxClock == 2
MaxFailures == 1

----------------------------------------------------------------------------
(* Values *)

Undefined == "<undefined>"

Collections == {"serviceRequests", "mechanicShops", "announcements", "coupons"}

\* `${x}` in a template literal
Str(x) == IF x = Undefined THEN "undefined" ELSE x

\* x || y on strings
OrElse(x, y) == IF x = Undefined \/ x = "" THEN y ELSE x

HexDigits == <<"0", "1", "2", "3", "4", "5", "6", "7",
               "8", "9", "a", "b", "c", "d", "e", "f">>

RECURSIVE ToHex(_)
ToHex(n) == IF n < 16 THEN HexDigits[n + 1]
            ELSE ToHex(n \div 16) \o HexDigits[(n % 16) + 1]

\* ObjectId.prototype.toString(): the hex string of the id
toString(oid) == ToHex(oid)

FirstFreshOid == 256
OidRange == 0 .. (FirstFreshOid + 2 * MaxEvents)

\* new ObjectId(str): the id whose hex string is str; throws on anything else
IsObjectIdHex(s) == \E n \in OidRange : toString(n) = s
ObjectIdOf(s) == CHOOSE n \in OidRange : toString(n) = s

----------------------------------------------------------------------------
(* The users and mechanicShops collections *)

UserRole == [e \in {"a@x.com", "b@x.com", "m@x.com"} |->
                CASE e = "a@x.com" -> "user"
                  [] e = "b@x.com" -> "admin"
                  [] e = "m@x.com" -> "mechanic"]

UserEmails == DOMAIN UserRole

Doc(id, email, userId, shopName, title, code, createdAt) ==
    [id |-> id, userEmail |-> email, userId |-> userId, shopName |-> shopName,
     title |-> title, code |-> code, createdAt |-> createdAt]

\* a missing Date field is 0; the clock starts at 1
NoDate == 0

ShopStore == {Doc(7, "m@x.com", "u3", "Joe's Garage", Undefined, Undefined, 1)}

\* mechanicShops.findOne({_id: oid})
findOneShop(oid) == {d \in ShopStore : d.id = oid}

----------------------------------------------------------------------------
(* Change events *)

SRDocs == {Doc(1, "a@x.com", "u1", Undefined, Undefined, Undefined, NoDate),
           Doc(2, "b@x.com", "u2", Undefined, Undefined, Undefined, NoDate),
           Doc(3, "z@x.com", "u9", Undefined, Undefined, Undefined, NoDate)}

ShopDocs == ShopStore \cup
            {Doc(8, "m@x.com", "u3", Undefined, Undefined, Undefined, NoDate)}

AnnouncementDocs == {Doc(4, Undefined, Undefined, Undefined, "Sale", Undefined, 1),
                     Doc(5, Undefined, Undefined, Undefined, Undefined, Undefined, NoDate)}

CouponDocs == {Doc(6, Undefined, Undefined, Undefined, Undefined, "SAVE10", 1),
               Doc(10, Undefined, Undefined, Undefined, Undefined, "NEW5", NoDate)}

\* full: the document is still there when it is looked up (fullDocument of an
\* update under updateLookup; findOne by documentKey in the first revision)
Event(coll, op, doc, full, assigned) ==
    [coll |-> coll, op |-> op, doc |-> doc, full |-> full, assigned |-> assigned]

AssignedValues == {Undefined, toString(7), toString(9), "not-an-id"}

EventSet ==
    {Event("serviceRequests", "insert", d, TRUE, Undefined) : d \in SRDocs}
    \cup {Event("serviceRequests", "update", d, TRUE, a) :
             d \in {x \in SRDocs : x.id \in {1, 2}}, a \in AssignedValues}
    \cup {Event("serviceRequests", "update", d, FALSE, toString(7)) :
             d \in {x \in SRDocs : x.id = 1}}
    \cup {Event("serviceRequests", "delete", d, FALSE, Undefined) :
             d \in {x \in SRDocs : x.id = 1}}
    \cup {Event("mechanicShops", "insert", d, TRUE, Undefined) : d \in ShopDocs}
    \cup {Event("mechanicShops", "update", d, FALSE, Undefined) :
             d \in {x \in ShopDocs : x.id = 7}}
    \cup {Event("announcements", "insert", d, TRUE, Undefined) : d \in AnnouncementDocs}
    \cup {Event("announcements", "delete", d, FALSE, Undefined) :
             d \in {x \in AnnouncementDocs : x.id = 4}}
    \cup {Event("coupons", "insert", d, TRUE, Undefined) : d \in CouponDocs}
    \cup {Event("coupons", "update", d, FALSE, Undefined) :
             d \in {x \in CouponDocs : x.id = 6}}

----------------------------------------------------------------------------
(* Notification records *)

Notif(id, message, type, data, createdAt, userEmail) ==
    [id |-> id, message |-> message, type |-> type, data |-> data,
     createdAt |-> createdAt, read |-> FALSE, userEmail |-> userEmail]

NoDoc == Doc(0, Undefined, Undefined, Undefined, Undefined, Undefined, NoDate)
NoNotif == Notif("", "", "", NoDoc, NoDate, Undefined)

AssignmentData(serviceId, shopId, assignedUserId) ==
    [serviceId |-> serviceId, shopId |-> shopId, assignedUserId |-> assignedUserId]

\* x?.createdAt || new Date()
DateOr(createdAt, now) == IF createdAt = NoDate THEN now ELSE createdAt

\* shopName without the fallback
shopName_NoFallback(found) ==
    IF found = {} THEN Undefined ELSE (CHOOSE d \in found : TRUE).shopName

\* shopDoc?.shop?.shopName || "Assigned Shop"
shopName(found) ==
    IF found = {} THEN "Assigned Shop"
    ELSE OrElse((CHOOSE d \in found : TRUE).shopName, "Assigned Shop")

\* second revision: the composite id
NotifId(prefix, doc) == prefix \o "_" \o toString(doc.id)

\* first revision: new ObjectId().toString()
NewObjectIdString(oid) == toString(oid)

serviceRequestNotif(r, doc, now, oid) ==
    IF r = 2
    THEN Notif(NotifId("serviceRequest", doc), "New service request added!",
               "serviceRequest", doc, now, doc.userEmail)
    ELSE Notif(NewObjectIdString(oid), "New service request added!",
               "serviceRequest", doc, now, Undefined)

assignmentNotif(r, ev, found, now, oid) ==
    IF r = 2
    THEN Notif(NotifId("assignment", ev.doc),
               "Service request assigned to \"" \o shopName(found) \o "\"",
               "assignment",
               AssignmentData(ev.doc.id, ev.assigned, ev.doc.userId),
               now, ev.doc.userEmail)
    ELSE Notif(NewObjectIdString(oid),
               "Service request has been assigned to \"" \o shopName(found) \o "\"",
               "assignment",
               AssignmentData(ev.doc.id, ev.assigned,
                              IF ev.full THEN ev.doc.userId ELSE Undefined),
               now, IF ev.full THEN ev.doc.userEmail ELSE Undefined)

mechanicShopNotif(r, doc, now, oid) ==
    IF r = 2
    THEN Notif(NotifId("mechanicShop", doc),
               "New mechanic shop added: " \o Str(doc.shopName),
               "mechanicShopAdded", doc, DateOr(doc.createdAt, now), doc.userEmail)
    ELSE Notif(NewObjectIdString(oid),
               "New mechanic shop added: " \o Str(doc.shopName),
               "mechanicShopAdded", doc, doc.createdAt, doc.userEmail)

announcementNotif(r, doc, now, oid) ==
    Notif(IF r = 2 THEN NotifId("announcement", doc) ELSE NewObjectIdString(oid),
          "New announcement: " \o Str(doc.title),
          "announcement", doc, DateOr(doc.createdAt, now), "all")

couponNotif(r, doc, now, oid) ==
    Notif(IF r = 2 THEN NotifId("coupon", doc) ELSE NewObjectIdString(oid),
          "New coupon available: " \o Str(doc.code),
          "coupon", doc, DateOr(doc.createdAt, now), "all")

----------------------------------------------------------------------------
(* The store's update primitives *)

EmailFilter(e) == [kind |-> "email", email |-> e, roles |-> {}]
RoleFilter(rs) == [kind |-> "role", email |-> Undefined, roles |-> rs]

\* Matches with the role condition dropped
Matches_AnyRole(filter) ==
    IF filter.kind = "email"
    THEN {u \in UserEmails : u = filter.email}
    ELSE UserEmails

Matches(filter) ==
    IF filter.kind = "email"
    THEN {u \in UserEmails : u = filter.email}
    ELSE {u \in UserEmails : UserRole[u] \in filter.roles}

\* {$addToSet: {notifications: n}}: appended unless an equal element is there
AddToSet(arr, n) ==
    IF \E i \in 1 .. Len(arr) : arr[i] = n THEN arr ELSE Append(arr, n)

\* {$push: {notifications: {$each: [n], $position: 0}}}
PushFront(arr, n) == <<n>> \o arr

\* the users collection after the update of one fan-out step
Updated(r, store, filter, n) ==
    [u \in UserEmails |->
        IF u \in Matches(filter)
        THEN IF r = 2 THEN AddToSet(store[u], n) ELSE PushFront(store[u], n)
        ELSE store[u]]

----------------------------------------------------------------------------
(* Handler invocations *)

\* filters: the audience filters of the fan-out, in the order they are written;
\* written: how many of them have been written
Task(ev, pc, notif, filters, event) ==
    [ev |-> ev, pc |-> pc, notif |-> notif, filters |-> filters, written |-> 0,
     event |-> event]

Truthy(x) == x # Undefined /\ x # ""

\* Thrown with no try/catch anywhere
Thrown_NoCatch(r, ev) == "rejected"

\* where an error thrown inside the handler of ev ends up: the second
\* revision's serviceRequests handler has a try/catch, no other handler has
Thrown(r, ev) ==
    IF r = 2 /\ ev.coll = "serviceRequests" THEN "caught" ELSE "rejected"

SocketEvent(ev) ==
    CASE ev.coll = "serviceRequests" /\ ev.op = "insert" -> "serviceRequestNotification"
      [] ev.coll = "serviceRequests" /\ ev.op # "insert" -> "assignmentNotification"
      [] ev.coll = "mechanicShops" -> "mechanicShopNotification"
      [] ev.coll = "announcements" -> "announcementNotification"
      [] ev.coll = "coupons" -> "couponNotification"

\* serviceRequestsOnChange with the mechanics left out of the insert's audience
serviceRequestsOnChange_AdminsOnly(r, ev, now, oid) ==
    IF ev.op = "insert"
    THEN Task(ev, "write", serviceRequestNotif(r, ev.doc, now, oid),
              <<EmailFilter(ev.doc.userEmail), RoleFilter({"admin"})>>,
              SocketEvent(ev))
    ELSE IF ev.op = "update" /\ Truthy(ev.assigned)
    THEN IF r = 2
         THEN IF IsObjectIdHex(ev.assigned)
              THEN Task(ev, "lookup", NoNotif, <<>>, SocketEvent(ev))
              ELSE Task(ev, Thrown(r, ev), NoNotif, <<>>, SocketEvent(ev))
         ELSE Task(ev, "lookupDoc", NoNotif, <<>>, SocketEvent(ev))
    ELSE Task(ev, "done", NoNotif, <<>>, SocketEvent(ev))

\* the handler of a serviceRequests change, up to its first await
serviceRequestsOnChange(r, ev, now, oid) ==
    IF ev.op = "insert"
    THEN Task(ev, "write", serviceRequestNotif(r, ev.doc, now, oid),
              <<EmailFilter(ev.doc.userEmail), RoleFilter({"mechanic", "admin"})>>,
              SocketEvent(ev))
    ELSE IF ev.op = "update" /\ Truthy(ev.assigned)
    THEN IF r = 2
         THEN IF IsObjectIdHex(ev.assigned)
              THEN Task(ev, "lookup", NoNotif, <<>>, SocketEvent(ev))
              ELSE Task(ev, Thrown(r, ev), NoNotif, <<>>, SocketEvent(ev))
         ELSE Task(ev, "lookupDoc", NoNotif, <<>>, SocketEvent(ev))
    ELSE Task(ev, "done", NoNotif, <<>>, SocketEvent(ev))

\* mechanicShopsOnChange without the operationType check
mechanicShopsOnChange_AnyOp(r, ev, now, oid) ==
    Task(ev, "write", mechanicShopNotif(r, ev.doc, now, oid),
         <<RoleFilter({"admin"})>>, SocketEvent(ev))

mechanicShopsOnChange(r, ev, now, oid) ==
    IF ev.op = "insert"
    THEN Task(ev, "write", mechanicShopNotif(r, ev.doc, now, oid),
              <<RoleFilter({"admin"})>>, SocketEvent(ev))
    ELSE Task(ev, "done", NoNotif, <<>>, SocketEvent(ev))

\* announcementsOnChange with the mechanics left out of the audience
announcementsOnChange_UsersOnly(r, ev, now, oid) ==
    IF ev.op = "insert"
    THEN Task(ev, "write", announcementNotif(r, ev.doc, now, oid),
              <<RoleFilter({"user"})>>, SocketEvent(ev))
    ELSE Task(ev, "done", NoNotif, <<>>, SocketEvent(ev))

announcementsOnChange(r, ev, now, oid) ==
    IF ev.op = "insert"
    THEN Task(ev, "write", announcementNotif(r, ev.doc, now, oid),
              <<RoleFilter({"user", "mechanic"})>>, SocketEvent(ev))
    ELSE Task(ev, "done", NoNotif, <<>>, SocketEvent(ev))

couponsOnChange(r, ev, now, oid) ==
    IF ev.op = "insert"
    THEN Task(ev, "write", couponNotif(r, ev.doc, now, oid),
              <<RoleFilter({"user", "mechanic"})>>, SocketEvent(ev))
    ELSE Task(ev, "done", NoNotif, <<>>, SocketEvent(ev))

OnChange(r, ev, now, oid) ==
    CASE ev.coll = "serviceRequests" -> serviceRequestsOnChange(r, ev, now, oid)
      [] ev.coll = "mechanicShops" -> mechanicShopsOnChange(r, ev, now, oid)
      [] ev.coll = "announcements" -> announcementsOnChange(r, ev, now, oid)
      [] ev.coll = "coupons" -> couponsOnChange(r, ev, now, oid)

\* first revision, after findOne on serviceRequests: new ObjectId(assignedShopId)
\* throws on a malformed id, else the shop lookup is issued
AfterDocLookup(r, t) ==
    IF IsObjectIdHex(t.ev.assigned)
    THEN [t EXCEPT !.pc = "lookup"]
    ELSE [t EXCEPT !.pc = Thrown(r, t.ev)]

\* after findOne on mechanicShops: the record is built and the first write issued;
\* a missing document makes fullDoc._id (updatedDoc.userEmail) throw
AfterShopLookup(r, t, now, oid) ==
    IF t.ev.full
    THEN [t EXCEPT !.pc = "write",
                   !.notif = assignmentNotif(r, t.ev,
                                 findOneShop(ObjectIdOf(t.ev.assigned)), now, oid),
                   !.filters = <<EmailFilter(t.ev.doc.userEmail), RoleFilter({"admin"})>>]
    ELSE [t EXCEPT !.pc = Thrown(r, t.ev)]

\* the second revision emits after every write (sendNotification), the first
\* once, after the last write
EmitsAfterWrite(r, t) == r = 2 \/ t.written + 1 = Len(t.filters)

Effect(i, kind, who, event, notif) ==
    [task |-> i, kind |-> kind, who |-> who, event |-> event, notif |-> notif]

\* sendNotification's body after its await (second revision); one
\* updateOne/updateMany and what follows it (first revision)
AfterWrite(r, t) ==
    [t EXCEPT !.written = t.written + 1,
              !.pc = IF t.written + 1 = Len(t.filters) THEN "done" ELSE "write"]

WriteEffects(r, i, t) ==
    <<Effect(i, "write", Matches(t.filters[t.written + 1]), t.event, t.notif)>>
    \o (IF EmitsAfterWrite(r, t)
        THEN <<Effect(i, "push", {}, t.event, t.notif)>>
        ELSE <<>>)

----------------------------------------------------------------------------
(* Actions of the notification pipeline *)

\* an unhandled rejection or uncaught exception ends the process or, on
\* runtimes that only warn, leaves it running
Crash(pc) ==
    /\ unhandled' = unhandled + (IF pc = "rejected" THEN 1 ELSE 0)
    /\ caught' = caught + (IF pc = "caught" THEN 1 ELSE 0)
    /\ running' \in (IF pc = "rejected" THEN {TRUE, FALSE} ELSE {running})

\* the feed of ev.coll delivers ev: the handler runs to its first await
Change(ev) ==
    /\ running
    /\ subscribed[ev.coll]
    /\ Len(tasks) < MaxEvents
    /\ tasks' = Append(tasks, OnChange(rev, ev, clock, nextOid))
    /\ nextOid' = IF rev = 1 /\ ev.op = "insert" THEN nextOid + 1 ELSE nextOid
    /\ Crash(OnChange(rev, ev, clock, nextOid).pc)
    /\ UNCHANGED <<rev, subscribed, clock, notifications, effects, failures>>
    /\ UNCHANGED chatVars

DocLookupReturns(i) ==
    /\ running
    /\ tasks[i].pc = "lookupDoc"
    /\ tasks' = [tasks EXCEPT ![i] = AfterDocLookup(rev, tasks[i])]
    /\ Crash(AfterDocLookup(rev, tasks[i]).pc)
    /\ UNCHANGED <<rev, subscribed, clock, nextOid, notifications, effects, failures>>
    /\ UNCHANGED chatVars

ShopLookupReturns(i) ==
    /\ running
    /\ tasks[i].pc = "lookup"
    /\ tasks' = [tasks EXCEPT ![i] = AfterShopLookup(rev, tasks[i], clock, nextOid)]
    /\ nextOid' = IF rev = 1 THEN nextOid + 1 ELSE nextOid
    /\ Crash(AfterShopLookup(rev, tasks[i], clock, nextOid).pc)
    /\ UNCHANGED <<rev, subscribed, clock, notifications, effects, failures>>
    /\ UNCHANGED chatVars

LookupFails(i) ==
    /\ running
    /\ tasks[i].pc \in {"lookupDoc", "lookup"}
    /\ failures < MaxFailures
    /\ failures' = failures + 1
    /\ tasks' = [tasks EXCEPT ![i].pc = Thrown(rev, tasks[i].ev)]
    /\ Crash(Thrown(rev, tasks[i].ev))
    /\ UNCHANGED <<rev, subscribed, clock, nextOid, notifications, effects>>
    /\ UNCHANGED chatVars

StoreWriteReturns(i) ==
    /\ running
    /\ tasks[i].pc = "write"
    /\ notifications' = Updated(rev, notifications,
                                tasks[i].filters[tasks[i].written + 1], tasks[i].notif)
    /\ effects' = effects \o WriteEffects(rev, i, tasks[i])
    /\ tasks' = [tasks EXCEPT ![i] = AfterWrite(rev, tasks[i])]
    /\ UNCHANGED <<rev, running, subscribed, clock, nextOid, caught, unhandled, failures>>
    /\ UNCHANGED chatVars

StoreWriteFails(i) ==
    /\ running
    /\ tasks[i].pc = "write"
    /\ failures < MaxFailures
    /\ failures' = failures + 1
    /\ tasks' = [tasks EXCEPT ![i].pc = Thrown(rev, tasks[i].ev)]
    /\ Crash(Thrown(rev, tasks[i].ev))
    /\ UNCHANGED <<rev, subscribed, clock, nextOid, notifications, effects>>
    /\ UNCHANGED chatVars

\* the change stream of coll emits "error": nobody listens for it, and the
\* stream is closed; no code opens it again
FeedError(coll) ==
    /\ running
    /\ subscribed[coll]
    /\ failures < MaxFailures
    /\ failures' = failures + 1
    /\ subscribed' = [subscribed EXCEPT ![coll] = FALSE]
    /\ Crash("rejected")
    /\ UNCHANGED <<rev, clock, nextOid, notifications, tasks, effects>>
    /\ UNCHANGED chatVars

Tick ==
    /\ clock < MaxClock
    /\ clock' = clock + 1
    /\ UNCHANGED <<rev, running, subscribed, nextOid, notifications, tasks,
                   effects, caught, unhandled, failures>>
    /\ UNCHANGED chatVars

----------------------------------------------------------------------------
(* Chat rooms *)

Sockets == {"s1", "s2", "s3"}
ChatIds == {"r1", "r2"}

\* a room name comes from the client: a chat id, or any other string, such as
\* the id of a socket (every socket is in the room named by its own id)
RoomIds == ChatIds \cup {"s1"}

NoRelay == [event |-> "", room |-> "", sender |-> "", to |-> {}]

\* the sockets in a room (the adapter's view)
Members(room) == {s \in Sockets : room \in rooms[s]}

\* io.to(room).emit(...)
ioTo(room) == Members(room)

\* socketTo that forgets to leave the sender out (io.to in place of socket.to)
socketTo_WithSender(s, room) == Members(room)

\* socket.to(room).emit(...): the room without the sending socket
socketTo(s, room) == Members(room) \ {s}

Connect(s) ==
    /\ status[s] = "idle"
    /\ status' = [status EXCEPT ![s] = "connected"]
    /\ rooms' = [rooms EXCEPT ![s] = {s}]
    /\ UNCHANGED <<joined, lastRelay>>
    /\ UNCHANGED pipelineVars

\* a joinChat handler that only logs
joinChat_NoJoin(s, chatId) ==
    /\ status[s] = "connected"
    /\ joined' = [joined EXCEPT ![s] = @ \cup {chatId}]
    /\ UNCHANGED <<status, rooms, lastRelay>>
    /\ UNCHANGED pipelineVars

joinChat(s, chatId) ==
    /\ status[s] = "connected"
    /\ rooms' = [rooms EXCEPT ![s] = @ \cup {chatId}]
    /\ joined' = [joined EXCEPT ![s] = @ \cup {chatId}]
    /\ UNCHANGED <<status, lastRelay>>
    /\ UNCHANGED pipelineVars

\* sendMessage relayed with socket.to in place of io.to
sendMessage_SocketTo(s, chatId) ==
    /\ status[s] = "connected"
    /\ lastRelay' = [event |-> "newMessage", room |-> chatId, sender |-> s,
                     to |-> socketTo(s, chatId)]
    /\ UNCHANGED <<status, rooms, joined>>
    /\ UNCHANGED pipelineVars

sendMessage(s, chatId) ==
    /\ status[s] = "connected"
    /\ lastRelay' = [event |-> "newMessage", room |-> chatId, sender |-> s,
                     to |-> ioTo(chatId)]
    /\ UNCHANGED <<status, rooms, joined>>
    /\ UNCHANGED pipelineVars

typing(s, chatId) ==
    /\ status[s] = "connected"
    /\ lastRelay' = [event |-> "typing", room |-> chatId, sender |-> s,
                     to |-> socketTo(s, chatId)]
    /\ UNCHANGED <<status, rooms, joined>>
    /\ UNCHANGED pipelineVars

stopTyping(s, chatId) ==
    /\ status[s] = "connected"
    /\ lastRelay' = [event |-> "stopTyping", room |-> chatId, sender |-> s,
                     to |-> socketTo(s, chatId)]
    /\ UNCHANGED <<status, rooms, joined>>
    /\ UNCHANGED pipelineVars

\* a disconnect that leaves the socket in its rooms
disconnect_KeepsRooms(s) ==
    /\ status[s] = "connected"
    /\ status' = [status EXCEPT ![s] = "disconnected"]
    /\ joined' = [joined EXCEPT ![s] = {}]
    /\ UNCHANGED <<rooms, lastRelay>>
    /\ UNCHANGED pipelineVars

\* the socket closes: it leaves all its rooms, then the handler logs
disconnect(s) ==
    /\ status[s] = "connected"
    /\ status' = [status EXCEPT ![s] = "disconnected"]
    /\ rooms' = [rooms EXCEPT ![s] = {}]
    /\ joined' = [joined EXCEPT ![s] = {}]
    /\ UNCHANGED lastRelay
    /\ UNCHANGED pipelineVars

----------------------------------------------------------------------------
(* Specifications *)

Init ==
    /\ rev \in {1, 2}
    /\ running = TRUE
    /\ subscribed = [c \in Collections |-> TRUE]
    /\ clock = 1
    /\ nextOid = FirstFreshOid
    /\ notifications = [u \in UserEmails |-> <<>>]
    /\ tasks = <<>>
    /\ effects = <<>>
    /\ caught = 0
    /\ unhandled = 0
    /\ failures = 0
    /\ status = [s \in Sockets |-> "idle"]
    /\ rooms = [s \in Sockets |-> {}]
    /\ joined = [s \in Sockets |-> {}]
    /\ lastRelay = NoRelay

Next ==
    \/ \E ev \in EventSet : Change(ev)
    \/ \E i \in 1 .. Len(tasks) : DocLookupReturns(i)
    \/ \E i \in 1 .. Len(tasks) : ShopLookupReturns(i)
    \/ \E i \in 1 .. Len(tasks) : LookupFails(i)
    \/ \E i \in 1 .. Len(tasks) : StoreWriteReturns(i)
    \/ \E i \in 1 .. Len(tasks) : StoreWriteFails(i)
    \/ \E coll \in Collections : FeedError(coll)
    \/ Tick

Spec == Init /\ [][Next]_vars

NextChat ==
    \/ \E s \in Sockets : Connect(s)
    \/ \E s \in Sockets, r \in RoomIds : joinChat(s, r)
    \/ \E s \in Sockets, r \in RoomIds : sendMessage(s, r)
    \/ \E s \in Sockets, r \in RoomIds : typing(s, r)
    \/ \E s \in Sockets, r \in RoomIds : stopTyping(s, r)
    \/ \E s \in Sockets : disconnect(s)

SpecChat == Init /\ [][NextChat]_vars

----------------------------------------------------------------------------
(* Properties *)

Built(t) == t.notif # NoNotif

Stored(u, n) == \E k \in 1 .. Len(notifications[u]) : notifications[u][k] = n

\* the users a task's fan-out addresses
Audience(t) == UNION {Matches(t.filters[k]) : k \in 1 .. Len(t.filters)}

Triple(t) == <<t.ev.coll, t.ev.op, t.ev.doc.id>>

\* C1: handling the same triggering event twice leaves every recipient with
\* exactly one stored entry for it (stated of the second revision, the one
\* that goes through sendNotification and $addToSet).
C1_ReplayStoresOnce ==
    rev = 2 =>
        \A i, j \in 1 .. Len(tasks) :
            (/\ i < j
             /\ tasks[i].ev = tasks[j].ev
             /\ tasks[i].pc = "done" /\ tasks[j].pc = "done"
             /\ Built(tasks[i]))
            => \A u \in Audience(tasks[i]) :
                   Cardinality({k \in 1 .. Len(notifications[u]) :
                                   notifications[u][k] \in {tasks[i].notif, tasks[j].notif}}) = 1

\* C2: no user's notifications array ever holds two entries with the same id
\* (stated of the second revision).
C2_UniqueIds ==
    rev = 2 =>
        \A u \in UserEmails :
            \A i, j \in 1 .. Len(notifications[u]) :
                i < j => notifications[u][i].id # notifications[u][j].id

\* C3: the id of a notification is a function of (collection, operation,
\* document id) alone, and an injective one: two synthesized records have the
\* same id exactly when their events agree on the triple.
C3_IdFunctionOfTriple ==
    \A i, j \in 1 .. Len(tasks) :
        (Built(tasks[i]) /\ Built(tasks[j]))
        => ((Triple(tasks[i]) = Triple(tasks[j])) <=> (tasks[i].notif.id = tasks[j].notif.id))

\* C4: once the handler of a serviceRequests insert has completed, the user with
\* the request's email and every mechanic and admin hold an entry for the
\* request, all under the id of the one record the handler built.
C4_InsertStoredForAudience ==
    \A i \in 1 .. Len(tasks) :
        (/\ tasks[i].ev.coll = "serviceRequests"
         /\ tasks[i].ev.op = "insert"
         /\ tasks[i].pc = "done")
        => \A u \in {x \in UserEmails : \/ x = tasks[i].ev.doc.userEmail
                                        \/ UserRole[x] \in {"mechanic", "admin"}} :
               \E k \in 1 .. Len(notifications[u]) :
                   /\ notifications[u][k].id = tasks[i].notif.id
                   /\ notifications[u][k].type = "serviceRequest"
                   /\ notifications[u][k].message = "New service request added!"
                   /\ notifications[u][k].data = tasks[i].ev.doc

C4_Witness ==
    \E i \in 1 .. Len(tasks) :
        /\ tasks[i].ev.coll = "serviceRequests"
        /\ tasks[i].ev.op = "insert"
        /\ tasks[i].ev.doc.userEmail = "a@x.com"
        /\ tasks[i].pc = "done"
        /\ Stored("a@x.com", tasks[i].notif)
        /\ Stored("b@x.com", tasks[i].notif)
        /\ Stored("m@x.com", tasks[i].notif)

\* C5: a push of a record comes only after the store write of every recipient
\* in the record's audience (stated of the second revision).
C5_PushAfterWrite ==
    rev = 2 =>
        \A b \in 1 .. Len(effects) :
            effects[b].kind = "push"
            => \A u \in Audience(tasks[effects[b].task]) :
                   \E a \in 1 .. (b - 1) :
                       /\ effects[a].kind = "write"
                       /\ effects[a].task = effects[b].task
                       /\ u \in effects[a].who

\* C6: when the email-matched write of a serviceRequests fan-out fails, the
\* role-matched recipients still get the record stored (stated of the second
\* revision; the handler has ended, so nothing more will be written).
C6_FanoutContinues ==
    rev = 2 =>
        \A i \in 1 .. Len(tasks) :
            (/\ tasks[i].ev.coll = "serviceRequests"
             /\ Built(tasks[i])
             /\ tasks[i].pc \in {"caught", "rejected"}
             /\ tasks[i].written = 0)
            => \A u \in Matches(tasks[i].filters[2]) : Stored(u, tasks[i].notif)

\* C7: no error raised while a change event is processed escapes its handler,
\* and the process goes on handling events (stated of the second revision).
C7_ErrorsContained ==
    rev = 2 =>
        /\ \A i \in 1 .. Len(tasks) : tasks[i].pc # "rejected"
        /\ (\E i \in 1 .. Len(tasks) : tasks[i].pc \in {"caught", "rejected"}) => running

\* C8: for two events of the same collection, every store write and push of the
\* one delivered first comes before every store write and push of the other
\* (stated of the second revision).
C8_FeedOrder ==
    rev = 2 =>
        \A a, b \in 1 .. Len(effects) :
            (/\ a < b
             /\ tasks[effects[a].task].ev.coll = tasks[effects[b].task].ev.coll)
            => effects[a].task <= effects[b].task

\* C9: after a feed error on a collection the process is still running (it
\* could not resubscribe otherwise) (stated of the second revision).
C9_FeedErrorSurvived ==
    rev = 2 =>
        \A c \in Collections : ~subscribed[c] => running

\* C10: a typing or stopTyping relay from socket s to room r reaches every
\* socket in r other than s, and never s, whether or not s is in r.
C10_TypingExcludesSender ==
    [][(/\ lastRelay' # lastRelay
        /\ lastRelay'.event \in {"typing", "stopTyping"})
       => /\ lastRelay'.sender \notin lastRelay'.to
          /\ \A d \in Sockets \ {lastRelay'.sender} :
                 d \in lastRelay'.to <=> lastRelay'.room \in rooms[d]]_vars

C10_Witness ==
    /\ lastRelay.event = "typing"
    /\ lastRelay.room \in rooms[lastRelay.sender]
    /\ lastRelay.room \in ChatIds
    /\ Cardinality(lastRelay.to) = 2

\* C11 (as stated): a newMessage relay from socket s to room r reaches every
\* socket in r and also s.
C11_NewMessageReachesSender ==
    [][(/\ lastRelay' # lastRelay
        /\ lastRelay'.event = "newMessage")
       => lastRelay'.to = {d \in Sockets : lastRelay'.room \in rooms[d]}
                          \cup {lastRelay'.sender}]_vars

\* C11 (amended): a newMessage relay from socket s to room r reaches exactly
\* the sockets in r, s among them when s is in r; a sender outside r gets
\* nothing back.
C11_NewMessageReachesRoom ==
    [][(/\ lastRelay' # lastRelay
        /\ lastRelay'.event = "newMessage")
       => /\ \A d \in Sockets :
                 d \in lastRelay'.to <=> lastRelay'.room \in rooms[d]
          /\ (lastRelay'.sender \in lastRelay'.to
                 <=> lastRelay'.room \in rooms[lastRelay'.sender])]_vars

C11_Witness ==
    /\ lastRelay.event = "newMessage"
    /\ lastRelay.room \in ChatIds
    /\ lastRelay.sender \in lastRelay.to
    /\ Cardinality(lastRelay.to) = 3

\* C12 (as stated): a disconnected socket is in no room and no relay made
\* afterwards reaches it; a socket that connects starts in no room.
C12_DisconnectLeavesAll ==
    [][\A s \in Sockets :
          /\ status'[s] = "disconnected"
             => /\ rooms'[s] = {}
                /\ (lastRelay' # lastRelay => s \notin lastRelay'.to)
          /\ (status[s] = "idle" /\ status'[s] = "connected") => rooms'[s] = {}]_vars

\* C12 (amended): a disconnected socket is in no room and no relay made
\* afterwards reaches it; a socket that connects starts in no room but the one
\* named by its own id.
C12_DisconnectLeavesAllButOwn ==
    [][\A s \in Sockets :
          /\ status'[s] = "disconnected"
             => /\ rooms'[s] = {}
                /\ (lastRelay' # lastRelay => s \notin lastRelay'.to)
          /\ (status[s] = "idle" /\ status'[s] = "connected")
             => (rooms'[s] \subseteq {s} /\ joined'[s] = {})]_vars

\* a socket that had joined a room is gone, and a relay to that room by
\* another member reached the remaining member only
C12_Witness ==
    \E s \in Sockets :
        /\ status[s] = "disconnected"
        /\ lastRelay.event = "newMessage"
        /\ lastRelay.room \in ChatIds
        /\ Cardinality(lastRelay.to) = 2
        /\ s \notin lastRelay.to
        /\ \A d \in Sockets \ {s} : status[d] = "connected"

\* C20 (as stated): a relay addressed to room r reaches only live sockets that
\* joined r (and, for newMessage, possibly the sender), and reaches every live
\* socket that joined r (the sender of typing and stopTyping excepted).
C20_RelayOnlyToJoined ==
    [][lastRelay' # lastRelay
       => /\ lastRelay'.to \subseteq
                {d \in Sockets : status[d] = "connected" /\ lastRelay'.room \in joined[d]}
                \cup (IF lastRelay'.event = "newMessage"
                      THEN {lastRelay'.sender} ELSE {})
          /\ \A d \in Sockets :
                 (/\ status[d] = "connected"
                  /\ lastRelay'.room \in joined[d]
                  /\ (d # lastRelay'.sender \/ lastRelay'.event = "newMessage"))
                 => d \in lastRelay'.to]_vars

\* C20 (amended): a relay addressed to room r reaches only live sockets that
\* joined r or whose own id is r, and reaches every live socket that joined r
\* (the sender of typing and stopTyping excepted); so a socket in several rooms
\* gets the relays of each, and of no room it is not in.
C20_RelayOnlyToRoom ==
    [][lastRelay' # lastRelay
       => /\ lastRelay'.to \subseteq
                {d \in Sockets : /\ status[d] = "connected"
                                 /\ (lastRelay'.room \in joined[d] \/ lastRelay'.room = d)}
          /\ \A d \in Sockets :
                 (/\ status[d] = "connected"
                  /\ lastRelay'.room \in joined[d]
                  /\ (d # lastRelay'.sender \/ lastRelay'.event = "newMessage"))
                 => d \in lastRelay'.to]_vars

\* a socket is in both chat rooms, another in one of them only, and a relay to
\* the other room reached the first and not the second
C20_Witness ==
    \E d, e \in Sockets :
        /\ d # e
        /\ joined[d] = ChatIds
        /\ joined[e] \cap ChatIds # {}
        /\ lastRelay.room \in ChatIds \ joined[e]
        /\ lastRelay.sender \notin {d, e}
        /\ d \in lastRelay.to
        /\ e \notin lastRelay.to
        /\ status[e] = "connected"

----------------------------------------------------------------------------
(* Properties of synthesis and fan-out *)

IsAssignment(ev) ==
    ev.coll = "serviceRequests" /\ ev.op = "update" /\ ev.assigned # Undefined

\* the shop id is well formed and no shop has it
MissedLookup(ev) ==
    /\ IsAssignment(ev)
    /\ \E n \in OidRange : toString(n) = ev.assigned
    /\ \A n \in OidRange : toString(n) = ev.assigned => \A d \in ShopStore : d.id # n

FallbackMessages == {"Service request assigned to \"Assigned Shop\"",
                     "Service request has been assigned to \"Assigned Shop\""}

PushesOf(i) == {b \in 1 .. Len(effects) : effects[b].kind = "push" /\ effects[b].task = i}
WritesOf(i) == {a \in 1 .. Len(effects) : effects[a].kind = "write" /\ effects[a].task = i}

\* C13: an assignment update whose shop lookup finds nothing gets the message
\* with "Assigned Shop"; the lookup miss is no error; and once the handler has
\* completed the record is stored for the requester and every admin and, after
\* these writes, pushed as assignmentNotification.
C13_LookupMissFallsBack ==
    \A i \in 1 .. Len(tasks) :
        MissedLookup(tasks[i].ev)
        => /\ (tasks[i].ev.full /\ failures = 0)
                  => tasks[i].pc \notin {"caught", "rejected"}
           /\ Built(tasks[i]) => tasks[i].notif.message \in FallbackMessages
           /\ tasks[i].pc = "done"
                  => /\ \A u \in {x \in UserEmails : \/ x = tasks[i].ev.doc.userEmail
                                                     \/ UserRole[x] = "admin"} :
                            \E k \in 1 .. Len(notifications[u]) :
                                /\ notifications[u][k].message \in FallbackMessages
                                /\ notifications[u][k].type = "assignment"
                                /\ notifications[u][k].data.serviceId = tasks[i].ev.doc.id
                     /\ \E b \in PushesOf(i) :
                            /\ effects[b].event = "assignmentNotification"
                            /\ effects[b].notif.message \in FallbackMessages
                            /\ \A a \in WritesOf(i) : a < b

C13_Witness ==
    \E i \in 1 .. Len(tasks) :
        /\ MissedLookup(tasks[i].ev)
        /\ tasks[i].ev.doc.userEmail = "a@x.com"
        /\ tasks[i].pc = "done"
        /\ Stored("a@x.com", tasks[i].notif)
        /\ Stored("b@x.com", tasks[i].notif)
        /\ notifications["m@x.com"] = <<>>

\* C14: once the handler of an announcements insert with title t has completed,
\* every user with role user or mechanic holds a record whose message is
\* "New announcement: " followed by t, and that record has been broadcast as
\* announcementNotification.
C14_AnnouncementStoredAndBroadcast ==
    \A i \in 1 .. Len(tasks) :
        (/\ tasks[i].ev.coll = "announcements"
         /\ tasks[i].ev.op = "insert"
         /\ tasks[i].ev.doc.title # Undefined
         /\ tasks[i].pc = "done")
        => /\ tasks[i].notif.message = "New announcement: " \o tasks[i].ev.doc.title
           /\ \A u \in {x \in UserEmails : UserRole[x] \in {"user", "mechanic"}} :
                  Stored(u, tasks[i].notif)
           /\ \E b \in PushesOf(i) :
                  /\ effects[b].event = "announcementNotification"
                  /\ effects[b].notif = tasks[i].notif

C14_Witness ==
    \E i \in 1 .. Len(tasks) :
        /\ tasks[i].ev.coll = "announcements"
        /\ tasks[i].ev.op = "insert"
        /\ tasks[i].ev.doc.title = "Sale"
        /\ tasks[i].pc = "done"
        /\ tasks[i].notif.message = "New announcement: Sale"
        /\ Stored("a@x.com", tasks[i].notif)
        /\ Stored("m@x.com", tasks[i].notif)
        /\ notifications["b@x.com"] = <<>>

\* C15: a shop lookup that fails with an error does not abort synthesis: the
\* handler of an assignment update (its document present) never ends in error
\* without its record built, and with a malformed shop id it ends with the
\* fallback record built (stated of the second revision).
C15_LookupErrorFallsBack ==
    rev = 2 =>
        \A i \in 1 .. Len(tasks) :
            (IsAssignment(tasks[i].ev) /\ tasks[i].ev.full)
            => /\ tasks[i].pc \in {"caught", "rejected"} => Built(tasks[i])
               /\ (/\ ~ \E n \in OidRange : toString(n) = tasks[i].ev.assigned
                   /\ tasks[i].pc \in {"done", "caught", "rejected"})
                      => (Built(tasks[i]) /\ tasks[i].notif.message \in FallbackMessages)

\* the events no trigger matches
NonTrigger(ev) ==
    \/ ev.op \notin {"insert", "update"}
    \/ ev.coll = "serviceRequests" /\ ev.op = "update" /\ ev.assigned = Undefined
    \/ ev.coll # "serviceRequests" /\ ev.op = "update"

\* C16: the handler of an event no trigger matches ends at once with no record,
\* writes nothing, pushes nothing and raises no error.
C16_NonTriggerIsNoOp ==
    [][\A i \in 1 .. Len(tasks') :
          NonTrigger(tasks'[i].ev)
          => /\ tasks'[i].pc = "done"
             /\ ~Built(tasks'[i])
             /\ \A b \in 1 .. Len(effects') : effects'[b].task # i
             /\ i > Len(tasks)
                    => /\ notifications' = notifications
                       /\ effects' = effects
                       /\ caught' = caught
                       /\ unhandled' = unhandled
                       /\ running' = running]_vars

C16_Witness ==
    /\ Len(tasks) = 2
    /\ ~NonTrigger(tasks[1].ev)
    /\ tasks[1].pc = "write"
    /\ tasks[1].written = 1
    /\ NonTrigger(tasks[2].ev)
    /\ tasks[2].ev.op = "delete"
    /\ tasks[2].pc = "done"

AbsentDocument(ev) == IsAssignment(ev) /\ ~ev.full

\* C17: in the watcher that attaches the full document (the second revision),
\* an assignment update whose full document is absent never ends as an
\* uncaught error, and handling it leaves the process running and the feeds
\* open.
C17_AbsentDocumentCaught ==
    [][rev = 2 =>
          \A i \in 1 .. Len(tasks') :
              AbsentDocument(tasks'[i].ev)
              => /\ tasks'[i].pc \in {"lookup", "caught"}
                 /\ ~Built(tasks'[i])
                 /\ (i > Len(tasks) \/ tasks'[i].pc # tasks[i].pc)
                        => /\ running' = running
                           /\ unhandled' = unhandled
                           /\ subscribed' = subscribed]_vars

\* the absent document was met and caught, and the next event went through
C17_Witness ==
    /\ rev = 2
    /\ Len(tasks) = 2
    /\ AbsentDocument(tasks[1].ev)
    /\ tasks[1].pc = "caught"
    /\ failures = 0
    /\ running
    /\ tasks[2].ev.coll = "serviceRequests"
    /\ tasks[2].pc = "done"
    /\ Built(tasks[2])
    /\ \E b \in 1 .. Len(effects) : effects[b].task = 2 /\ effects[b].kind = "push"

\* the audience the dispatch table gives an event
ClaimedAudience(ev) ==
    {u \in UserEmails :
        CASE ev.coll = "serviceRequests" /\ ev.op = "insert" ->
                 u = ev.doc.userEmail \/ UserRole[u] \in {"mechanic", "admin"}
          [] ev.coll = "serviceRequests" /\ ev.op # "insert" ->
                 u = ev.doc.userEmail \/ UserRole[u] = "admin"
          [] ev.coll = "mechanicShops" -> UserRole[u] = "admin"
          [] ev.coll \in {"announcements", "coupons"} ->
                 UserRole[u] \in {"user", "mechanic"}}

\* C18: a store write of a fan-out changes the notifications of no user outside
\* the event's audience and raises no error, also when it matches no user; when
\* the fan-out is complete every user of the audience holds the record.
C18_OnlyAudienceChanged ==
    [][Len(effects') > Len(effects)
       => LET i == effects'[Len(effects) + 1].task
          IN  /\ \A u \in UserEmails :
                     notifications'[u] # notifications[u]
                     => u \in ClaimedAudience(tasks[i].ev)
              /\ caught' = caught /\ unhandled' = unhandled /\ running' = running
              /\ tasks'[i].pc \in {"write", "done"}
              /\ tasks'[i].pc = "done"
                     => \A u \in ClaimedAudience(tasks[i].ev) :
                            \E k \in 1 .. Len(notifications'[u]) :
                                notifications'[u][k] = tasks[i].notif]_vars

\* a request of an email no user has: the email-matched write matched nobody,
\* the fan-out went on to the mechanics and admins and left the plain user alone
C18_Witness ==
    \E i \in 1 .. Len(tasks) :
        /\ tasks[i].ev.coll = "serviceRequests"
        /\ tasks[i].ev.op = "insert"
        /\ tasks[i].ev.doc.userEmail \notin UserEmails
        /\ tasks[i].pc = "done"
        /\ \E a \in WritesOf(i) : effects[a].who = {}
        /\ Stored("b@x.com", tasks[i].notif)
        /\ Stored("m@x.com", tasks[i].notif)
        /\ notifications["a@x.com"] = <<>>
        /\ caught = 0 /\ unhandled = 0

\* C19: an event whose handler has completed with a record has been broadcast
\* exactly once (stated of the second revision).
C19_OneBroadcast ==
    rev = 2 =>
        \A i \in 1 .. Len(tasks) :
            (tasks[i].pc = "done" /\ Built(tasks[i]))
            => Cardinality(PushesOf(i)) = 1

====
